---- MODULE Spec2Model ----
(***************************************************************************)
(* EduAccess backend: resource lifecycle, moderation workflow and download *)
(* bookkeeping, as implemented by the Express handlers over the Mongoose   *)
(* models.  Every handler is split at its `await` points: one action per   *)
(* database or storage round trip, so that requests interleave exactly     *)
(* where the Node.js event loop lets them interleave.                      *)
(***************************************************************************)
EXTENDS Integers, Sequences, FiniteSets, TLC

VARIABLES
    resources,    \* Resource collection: _id -> document
    nextId,       \* next fresh Resource _id (ObjectIds are never reused)
    files,        \* keys present in the storage driver
    nextKey,      \* next fresh storage key handed out by multer
    modLogs,      \* ModerationLog collection, in insertion (createdAt) order
    downloads,    \* Download collection: number of records per (user, resource)
    schoolStats,  \* School.statistics, per school
    driver,       \* storage driver in use: "local" or "s3"
    started,      \* number of requests received so far
    overlaps,     \* number of requests received while another was being served
    pc,           \* per request slot: the await point the handler is parked at
    op,           \* per request slot: the request (handler, user, params)
    doc,          \* per request slot: the in-memory Mongoose document
    dirty,        \* per request slot: modified paths of the in-memory document
    previousStatus, \* per request slot: the handler's local `previousStatus`
    response,     \* per request slot: the response being sent (status, message)
    pendingOperations, \* client: syncManager.pendingOperations
    nextOperation,     \* client: next operation handed to addOperation
    syncPc,            \* client, per processQueue call: where the call is parked
    operation,         \* client, per processQueue call: its local `operation`
    failures,          \* client: how often each operation has thrown so far
    completed,         \* client: how often each operation has resolved so far
    syncQueue          \* client: what localforage holds under 'syncQueue'

syncVars == <<pendingOperations, nextOperation, syncPc, operation, failures,
              completed, syncQueue>>

vars == <<resources, nextId, files, nextKey, modLogs, downloads, schoolStats,
          driver, started, overlaps, pc, op, doc, dirty, previousStatus, response,
          syncVars>>

dbVars == <<resources, nextId, files, nextKey, modLogs, downloads, schoolStats>>

serverVars == <<dbVars, driver, started, overlaps, pc, op, doc, dirty,
                previousStatus, response>>

----------------------------------------------------------------------------
(* Bounds of the model *)

MaxRequests == 4
MaxOverlaps == 1
MaxResources == 2
MaxOperations == 3
MaxFailures == 1

(* Program constants *)

NotesMaxLength == 500

Procs == {1, 2}
ResIds == 1..MaxResources

Users == {"admin1", "teacher1", "student1"}
Schools == {"school1"}

Role(u) ==
    CASE u = "admin1" -> "admin"
      [] u = "teacher1" -> "teacher"
      [] u = "alumni1" -> "alumni"
      [] OTHER -> "student"

SchoolOf(u) == "school1"

resourceStatus == {"pending", "approved", "rejected"}

UpdateTitles == {"t2"}

----------------------------------------------------------------------------
(* Strings: a JS string is a sequence of characters; null/undefined is the *)
(* distinguished value NullStr.                                            *)

NullStr == [nul |-> TRUE, s |-> <<>>]
Str(s) == [nul |-> FALSE, s |-> s]

(* Request bodies: notes absent, empty, blank, plain, and padded *)
NotesInputs == {NullStr, Str(<<>>), Str(<<" ">>), Str(<<"x">>), Str(<<" ", "x">>)}

RECURSIVE TrimStart(_)
TrimStart(s) ==
    IF s # <<>> /\ Head(s) = " " THEN TrimStart(Tail(s)) ELSE s

RECURSIVE TrimEnd(_)
TrimEnd(s) ==
    IF s # <<>> /\ s[Len(s)] = " " THEN TrimEnd(SubSeq(s, 1, Len(s) - 1)) ELSE s

JsTrim(s) == TrimEnd(TrimStart(s))

(* JS truthiness of a string value: null, undefined and "" are falsy *)
Truthy(n) == ~n.nul /\ n.s # <<>>

(* express-validator sanitizer .trim(): applied to a present string *)
SanitizeTrim(n) == IF n.nul THEN n ELSE Str(JsTrim(n.s))

(* body('notes').optional().trim().isLength({ max: 500 }) *)
ApproveNotesValid(n) == n.nul \/ Len(JsTrim(n.s)) <= NotesMaxLength

(* body('notes').notEmpty().trim().isLength({ max: 500 }) *)
RejectNotesValid(n) == ~n.nul /\ n.s # <<>> /\ Len(JsTrim(n.s)) <= NotesMaxLength

RejectNotesMissingNullOnly(n) == n.nul

(* !notes || notes.trim().length === 0 *)
RejectNotesMissing(n) == ~Truthy(n) \/ Len(JsTrim(n.s)) = 0

(* Mongoose String schema type with trim: true *)
SchemaTrim(n) == IF n.nul THEN n ELSE Str(JsTrim(n.s))

----------------------------------------------------------------------------
NullUser == "null"
NullDate == 0

(* Client: operations handed to the sync queue, processQueue calls that  *)
(* can be running at once (one per 'online' event), the empty local       *)
(* `operation`, and localforage before anything was stored                *)
OperationIds == 1..MaxOperations
Calls == {1, 2}
NoOperation == 0
NotStored == -1

NoOp == [handler |-> "none"]
NoDoc == [none |-> TRUE]
NoResponse == [status |-> 0, message |-> ""]

Now == 1

Exists(r) == r \in DOMAIN resources

NewResourceNoDefault(title, uploader, school, key, at) ==
    [ title           |-> title,
      uploader        |-> uploader,
      school          |-> school,
      fileKey         |-> key,
      status          |-> "none",
      moderationNotes |-> NullStr,
      moderatedBy     |-> NullUser,
      moderatedAt     |-> NullDate,
      downloadCount   |-> 0,
      createdAt       |-> at ]

(* Resource.create defaults (resourceSchema): status pending, count 0 *)
NewResource(title, uploader, school, key, at) ==
    [ title           |-> title,
      uploader        |-> uploader,
      school          |-> school,
      fileKey         |-> key,
      status          |-> "pending",
      moderationNotes |-> NullStr,
      moderatedBy     |-> NullUser,
      moderatedAt     |-> NullDate,
      downloadCount   |-> 0,
      createdAt       |-> at ]

(* Paths Mongoose marks modified: those whose value differs from the loaded one *)
ModifiedPaths(before, after) == { f \in DOMAIN before : before[f] # after[f] }

(* document.save(): $set of the modified paths on the stored document *)
ApplySave(stored, d, paths) ==
    [ f \in DOMAIN stored |-> IF f \in paths THEN d[f] ELSE stored[f] ]

validTransitionsAny(from) == resourceStatus

(* moderationLogSchema.pre('save') transition table *)
validTransitions(from) ==
    CASE from = "pending" -> {"approved", "rejected"}
      [] from = "approved" -> {"rejected"}
      [] from = "rejected" -> {"approved"}
      [] OTHER -> {}

PreSaveOk(entry) == entry.newStatus \in validTransitions(entry.previousStatus)

----------------------------------------------------------------------------
Init ==
    /\ resources = << >>
    /\ nextId = 1
    /\ files = {}
    /\ nextKey = 1
    /\ modLogs = << >>
    /\ downloads = [u \in Users, r \in ResIds |-> 0]
    /\ schoolStats = [s \in Schools |-> [totalResources |-> 0, totalDownloads |-> 0]]
    /\ driver \in {"local", "s3"}
    /\ started = 0
    /\ overlaps = 0
    /\ pc = [p \in Procs |-> "idle"]
    /\ op = [p \in Procs |-> NoOp]
    /\ doc = [p \in Procs |-> NoDoc]
    /\ dirty = [p \in Procs |-> {}]
    /\ previousStatus = [p \in Procs |-> "none"]
    /\ response = [p \in Procs |-> NoResponse]
    /\ pendingOperations = << >>
    /\ nextOperation = 1
    /\ syncPc = [c \in Calls |-> "idle"]
    /\ operation = [c \in Calls |-> NoOperation]
    /\ failures = [o \in OperationIds |-> 0]
    /\ completed = [o \in OperationIds |-> 0]
    /\ syncQueue = NotStored

(* Node.js runs a handler to its next await or to its response without    *)
(* interruption: a response is on the wire before any other step runs     *)
Sending == \E q \in Procs : pc[q] = "done"

(* A request is received; it is served in the lowest free slot *)
Busy == \E q \in Procs : pc[q] # "idle"

CanStart(p) ==
    /\ ~Sending
    /\ pc[p] = "idle"
    /\ \A q \in Procs : q < p => pc[q] # "idle"
    /\ started < MaxRequests
    /\ Busy => overlaps < MaxOverlaps

Received ==
    /\ started' = started + 1
    /\ overlaps' = IF Busy THEN overlaps + 1 ELSE overlaps

(* The handler is running and parked at the await point `at` *)
At(p, at) == ~Sending /\ pc[p] = at

Begin(p, o, at) ==
    /\ Received
    /\ op' = [op EXCEPT ![p] = o]
    /\ pc' = [pc EXCEPT ![p] = at]
    /\ UNCHANGED <<doc, dirty, previousStatus, response>>

(* The request is answered before the handler reaches its first await *)
Refuse(p, o, code, msg) ==
    /\ Received
    /\ op' = [op EXCEPT ![p] = o]
    /\ pc' = [pc EXCEPT ![p] = "done"]
    /\ response' = [response EXCEPT ![p] = [status |-> code, message |-> msg]]
    /\ UNCHANGED <<doc, dirty, previousStatus>>

(* res.status(code).json(...) *)
Respond(p, code, msg) ==
    /\ pc' = [pc EXCEPT ![p] = "done"]
    /\ response' = [response EXCEPT ![p] = [status |-> code, message |-> msg]]
    /\ UNCHANGED <<op, started, overlaps, doc, dirty, previousStatus>>

(* The response has left and the handler's locals are dropped *)
Return(p) ==
    /\ pc[p] = "done"
    /\ pc' = [pc EXCEPT ![p] = "idle"]
    /\ op' = [op EXCEPT ![p] = NoOp]
    /\ doc' = [doc EXCEPT ![p] = NoDoc]
    /\ dirty' = [dirty EXCEPT ![p] = {}]
    /\ previousStatus' = [previousStatus EXCEPT ![p] = "none"]
    /\ response' = [response EXCEPT ![p] = NoResponse]
    /\ UNCHANGED <<dbVars, driver, syncVars, started, overlaps>>

(* The handler mutates its in-memory document d (loaded as `loaded`) and awaits *)
Hold(p, at, loaded, d) ==
    /\ pc' = [pc EXCEPT ![p] = at]
    /\ doc' = [doc EXCEPT ![p] = d]
    /\ dirty' = [dirty EXCEPT ![p] = ModifiedPaths(loaded, d)]
    /\ UNCHANGED <<op, started, overlaps, response>>

(* The handler moves to its next await with its locals untouched *)
Goto(p, at) ==
    /\ pc' = [pc EXCEPT ![p] = at]
    /\ UNCHANGED <<op, started, overlaps, response, doc, dirty, previousStatus>>

----------------------------------------------------------------------------
(* Moderation controller: approveResource                                  *)

(* req.body.notes as the handler sees it, after the route's sanitizers *)
BodyNotes(o) == SanitizeTrim(o.notes)

NotPendingOnlyRejected(d) == d.status = "rejected"

(* resource.status !== 'pending' *)
NotPending(d) == d.status # "pending"

ApproveLocalNoModerator(d, o, at) ==
    [d EXCEPT !.status = "approved",
              !.moderatedAt = at,
              !.moderationNotes = IF Truthy(BodyNotes(o)) THEN BodyNotes(o) ELSE NullStr]

(* The assignments approveResource makes to the loaded document *)
ApproveLocal(d, o, at) ==
    [d EXCEPT !.status = "approved",
              !.moderatedBy = o.user,
              !.moderatedAt = at,
              !.moderationNotes = IF Truthy(BodyNotes(o)) THEN BodyNotes(o) ELSE NullStr]

(* The document ModerationLog.create receives from approveResource *)
ApproveLogEntry(o, prevSt, d) ==
    [ resource       |-> o.rid,
      moderator      |-> o.user,
      action         |-> "approved",
      notes          |-> SchemaTrim(BodyNotes(o)),
      previousStatus |-> prevSt,
      newStatus      |-> d.status ]

(* router.use(protect); router.use(requireAdmin); validators; handler start *)
StartApprove(p) ==
    /\ CanStart(p)
    /\ \E u \in Users, r \in ResIds, n \in NotesInputs :
           LET o == [handler |-> "approve", user |-> u, rid |-> r, notes |-> n] IN
           /\ IF Role(u) # "admin" THEN Refuse(p, o, 403, "Access denied. Insufficient permissions.")
              ELSE IF ~ApproveNotesValid(n) THEN Refuse(p, o, 400, "Validation failed")
              ELSE Begin(p, o, "ap_find")
           /\ UNCHANGED <<dbVars, driver, syncVars>>

(* await Resource.findById, the 404 and 400 exits, the local assignments *)
ApproveFind(p) ==
    /\ At(p, "ap_find")
    /\ LET r == op[p].rid IN
       IF ~Exists(r) THEN Respond(p, 404, "Resource not found")
       ELSE IF NotPending(resources[r]) THEN Respond(p, 400, "Resource is not pending moderation")
       ELSE /\ Hold(p, "ap_save", resources[r], ApproveLocal(resources[r], op[p], Now))
            /\ previousStatus' = [previousStatus EXCEPT ![p] = resources[r].status]
    /\ UNCHANGED <<dbVars, driver, syncVars>>

(* await resource.save() *)
ApproveSave(p) ==
    /\ At(p, "ap_save")
    /\ LET r == op[p].rid IN
       IF ~Exists(r)
       THEN /\ Respond(p, 500, "Server Error")
            /\ UNCHANGED resources
       ELSE /\ resources' = [resources EXCEPT ![r] = ApplySave(@, doc[p], dirty[p])]
            /\ Goto(p, "ap_log")
    /\ UNCHANGED <<nextId, files, nextKey, modLogs, downloads, schoolStats, driver, syncVars>>

(* await ModerationLog.create(...), the populate calls, res.json *)
ApproveLog(p) ==
    /\ At(p, "ap_log")
    /\ LET entry == ApproveLogEntry(op[p], previousStatus[p], doc[p]) IN
       IF PreSaveOk(entry)
       THEN /\ modLogs' = Append(modLogs, entry)
            /\ Respond(p, 200, "Resource approved successfully")
       ELSE /\ UNCHANGED modLogs
            /\ Respond(p, 500, "Server Error")
    /\ UNCHANGED <<resources, nextId, files, nextKey, downloads, schoolStats, driver, syncVars>>

----------------------------------------------------------------------------
(* Moderation controller: rejectResource                                   *)

(* The assignments rejectResource makes to the loaded document *)
RejectLocal(d, o, at) ==
    [d EXCEPT !.status = "rejected",
              !.moderatedBy = o.user,
              !.moderatedAt = at,
              !.moderationNotes = BodyNotes(o)]

(* The document ModerationLog.create receives from rejectResource *)
RejectLogEntry(o, prevSt, d) ==
    [ resource       |-> o.rid,
      moderator      |-> o.user,
      action         |-> "rejected",
      notes          |-> SchemaTrim(BodyNotes(o)),
      previousStatus |-> prevSt,
      newStatus      |-> d.status ]

(* protect, requireAdmin, validators, then the handler's own notes check *)
StartReject(p) ==
    /\ CanStart(p)
    /\ \E u \in Users, r \in ResIds, n \in NotesInputs :
           LET o == [handler |-> "reject", user |-> u, rid |-> r, notes |-> n] IN
           /\ IF Role(u) # "admin" THEN Refuse(p, o, 403, "Access denied. Insufficient permissions.")
              ELSE IF ~RejectNotesValid(n) THEN Refuse(p, o, 400, "Validation failed")
              ELSE IF RejectNotesMissing(BodyNotes(o)) THEN Refuse(p, o, 400, "Rejection notes are required")
              ELSE Begin(p, o, "rj_find")
           /\ UNCHANGED <<dbVars, driver, syncVars>>

(* await Resource.findById, the 404 and 400 exits, the local assignments *)
RejectFind(p) ==
    /\ At(p, "rj_find")
    /\ LET r == op[p].rid IN
       IF ~Exists(r) THEN Respond(p, 404, "Resource not found")
       ELSE IF NotPending(resources[r]) THEN Respond(p, 400, "Resource is not pending moderation")
       ELSE /\ Hold(p, "rj_save", resources[r], RejectLocal(resources[r], op[p], Now))
            /\ previousStatus' = [previousStatus EXCEPT ![p] = resources[r].status]
    /\ UNCHANGED <<dbVars, driver, syncVars>>

(* await resource.save() *)
RejectSave(p) ==
    /\ At(p, "rj_save")
    /\ LET r == op[p].rid IN
       IF ~Exists(r)
       THEN /\ Respond(p, 500, "Server Error")
            /\ UNCHANGED resources
       ELSE /\ resources' = [resources EXCEPT ![r] = ApplySave(@, doc[p], dirty[p])]
            /\ Goto(p, "rj_log")
    /\ UNCHANGED <<nextId, files, nextKey, modLogs, downloads, schoolStats, driver, syncVars>>

(* await ModerationLog.create(...), the populate calls, res.json *)
RejectLog(p) ==
    /\ At(p, "rj_log")
    /\ LET entry == RejectLogEntry(op[p], previousStatus[p], doc[p]) IN
       IF PreSaveOk(entry)
       THEN /\ modLogs' = Append(modLogs, entry)
            /\ Respond(p, 200, "Resource rejected successfully")
       ELSE /\ UNCHANGED modLogs
            /\ Respond(p, 500, "Server Error")
    /\ UNCHANGED <<resources, nextId, files, nextKey, downloads, schoolStats, driver, syncVars>>

----------------------------------------------------------------------------
(* Resource controller: uploadResource                                     *)

NoTitle == ""

(* Multipart bodies: complete, complete with a status field of its own,  *)
(* without a title, without a file part                                   *)
UploadBodies ==
    { [title |-> "t1", hasFile |-> TRUE, status |-> "none"],
      [title |-> "t1", hasFile |-> TRUE, status |-> "approved"],
      [title |-> NoTitle, hasFile |-> TRUE, status |-> "none"],
      [title |-> "t1", hasFile |-> FALSE, status |-> "none"] }

(* Whoever posts an upload: a registered user or a former student *)
Uploaders == Users \cup {"alumni1"}

BodyFieldsCreatedAll == {"title", "status"}

(* The fields of req.body that uploadResource hands to Resource.create    *)
(* (title, description, subject, grade, strand, tags, isPublic)           *)
BodyFieldsCreated == {"title"}

(* requireStudent = requireRole(['student', 'teacher', 'admin', 'alumni']) *)
requireStudent(u) == Role(u) \in {"student", "teacher", "admin", "alumni"}

(* req.file.key: the S3 engine sets file.key; multer.diskStorage of the    *)
(* local driver sets filename and path only, so the key is undefined      *)
NoKey == 0

ReqFileKey(k) == IF driver = "s3" THEN k ELSE NoKey

(* requireTeacher = requireRole(['teacher', 'admin']) *)
requireTeacher(u) == Role(u) \in {"teacher", "admin"}

(* Uploads that have passed requireTeacher and not yet written their file *)
Storing == { q \in Procs : pc[q] = "up_store" }

(* Uploads that have not yet inserted their Resource *)
Creating == { q \in Procs : pc[q] \in {"up_store", "up_create"} }

(* protect, requireTeacher *)
StartUpload(p) ==
    /\ CanStart(p)
    /\ \E u \in Uploaders, b \in UploadBodies :
           LET o == [handler |-> "upload", user |-> u, title |-> b.title,
                     hasFile |-> b.hasFile, status |-> b.status] IN
           /\ nextKey + Cardinality(Storing) <= MaxResources
           /\ nextId + Cardinality(Creating) <= MaxResources
           /\ IF ~requireTeacher(u) THEN Refuse(p, o, 403, "Access denied. Insufficient permissions.")
              ELSE Begin(p, o, "up_store")
           /\ UNCHANGED <<dbVars, driver, syncVars>>

(* upload.single('file') writes the file; then the validators and the     *)
(* handler's checks run up to the await of Resource.create                *)
UploadStore(p) ==
    /\ At(p, "up_store")
    /\ IF op[p].hasFile
       THEN /\ files' = files \cup {nextKey}
            /\ nextKey' = nextKey + 1
       ELSE UNCHANGED <<files, nextKey>>
    /\ IF op[p].title = NoTitle
       THEN Respond(p, 400, "Validation failed")
       ELSE IF ~op[p].hasFile
       THEN Respond(p, 400, "File is required")
       ELSE /\ pc' = [pc EXCEPT ![p] = "up_create"]
            /\ doc' = [doc EXCEPT ![p] =
                         LET created == NewResource(op[p].title, op[p].user, SchoolOf(op[p].user),
                                                    ReqFileKey(nextKey), NullDate) IN
                         IF "status" \in BodyFieldsCreated /\ op[p].status # "none"
                         THEN [created EXCEPT !.status = op[p].status]
                         ELSE created]
            /\ UNCHANGED <<op, started, overlaps, response, dirty, previousStatus>>
    /\ UNCHANGED <<resources, nextId, modLogs, downloads, schoolStats, driver, syncVars>>

(* await Resource.create(...); file.key is required by resourceSchema, so  *)
(* a document without it fails validation and the handler throws          *)
UploadCreate(p) ==
    /\ At(p, "up_create")
    /\ IF doc[p].fileKey = NoKey
       THEN /\ UNCHANGED <<resources, nextId>>
            /\ Respond(p, 500, "Server Error")
       ELSE /\ resources' = [ r \in DOMAIN resources \cup {nextId} |->
                               IF r = nextId THEN [doc[p] EXCEPT !.createdAt = nextId]
                               ELSE resources[r] ]
            /\ nextId' = nextId + 1
            /\ Goto(p, "up_stat")
    /\ UNCHANGED <<files, nextKey, modLogs, downloads, schoolStats, driver, syncVars>>

(* await School.findByIdAndUpdate($inc totalResources 1), populate, 201 *)
UploadStat(p) ==
    /\ At(p, "up_stat")
    /\ schoolStats' = [schoolStats EXCEPT ![SchoolOf(op[p].user)].totalResources = @ + 1]
    /\ Respond(p, 201, "Resource uploaded successfully and is pending moderation")
    /\ UNCHANGED <<resources, nextId, files, nextKey, modLogs, downloads, driver, syncVars>>

----------------------------------------------------------------------------
(* Resource controller: updateResource                                     *)

(* resource.uploader.toString() !== req.user.id && req.user.role !== 'admin' *)
NotOwnerNorAdmin(d, u) == d.uploader # u /\ Role(u) # "admin"

UpdateLocalNoReset(d, o) ==
    IF o.title # NoTitle THEN [d EXCEPT !.title = o.title] ELSE d

(* The assignments updateResource makes to the loaded document *)
UpdateLocal(d, o) ==
    LET titled == IF o.title # NoTitle THEN [d EXCEPT !.title = o.title] ELSE d IN
    IF Role(o.user) = "admin" /\ titled.status = "approved"
    THEN [titled EXCEPT !.status = "pending",
                        !.moderatedBy = NullUser,
                        !.moderatedAt = NullDate,
                        !.moderationNotes = NullStr]
    ELSE titled

(* protect, validators (all fields optional) *)
StartUpdate(p) ==
    /\ CanStart(p)
    /\ \E u \in Users, r \in ResIds, t \in UpdateTitles \cup {NoTitle} :
           /\ Begin(p, [handler |-> "update", user |-> u, rid |-> r, title |-> t], "ed_find")
           /\ UNCHANGED <<dbVars, driver, syncVars>>

(* await Resource.findById, the 404 and 403 exits, the local assignments *)
UpdateFind(p) ==
    /\ At(p, "ed_find")
    /\ LET r == op[p].rid IN
       IF ~Exists(r) THEN Respond(p, 404, "Resource not found")
       ELSE IF NotOwnerNorAdmin(resources[r], op[p].user) THEN Respond(p, 403, "Access denied")
       ELSE /\ Hold(p, "ed_save", resources[r], UpdateLocal(resources[r], op[p]))
            /\ UNCHANGED previousStatus
    /\ UNCHANGED <<dbVars, driver, syncVars>>

(* await resource.save() (a no-op when nothing is modified), populate, 200 *)
UpdateSave(p) ==
    /\ At(p, "ed_save")
    /\ LET r == op[p].rid IN
       IF dirty[p] = {}
       THEN /\ UNCHANGED resources
            /\ Respond(p, 200, "Resource updated successfully")
       ELSE IF ~Exists(r)
       THEN /\ UNCHANGED resources
            /\ Respond(p, 500, "Server Error")
       ELSE /\ resources' = [resources EXCEPT ![r] = ApplySave(@, doc[p], dirty[p])]
            /\ Respond(p, 200, "Resource updated successfully")
    /\ UNCHANGED <<nextId, files, nextKey, modLogs, downloads, schoolStats, driver, syncVars>>

----------------------------------------------------------------------------
(* Storage drivers                                                         *)

(* LocalStorageService.deleteFile: fs.unlink rejects when the file is absent *)
LocalDeleteThrows(key) == key \notin files

(* getDownloadUrl: the local driver only formats a path and cannot fail;   *)
(* the S3 driver rethrows whatever getSignedUrl throws                     *)
UrlMayFail == driver = "s3"

(* deleteFile of the S3 driver rethrows whatever s3Client.send throws *)
S3DeleteMayFail == driver = "s3"

----------------------------------------------------------------------------
(* Resource controller: deleteResource                                     *)

StartDelete(p) ==
    /\ CanStart(p)
    /\ \E u \in Users, r \in ResIds :
           /\ Begin(p, [handler |-> "delete", user |-> u, rid |-> r], "del_find")
           /\ UNCHANGED <<dbVars, driver, syncVars>>

(* await Resource.findById, the 404 and 403 exits *)
DeleteFind(p) ==
    /\ At(p, "del_find")
    /\ LET r == op[p].rid IN
       IF ~Exists(r) THEN Respond(p, 404, "Resource not found")
       ELSE IF NotOwnerNorAdmin(resources[r], op[p].user) THEN Respond(p, 403, "Access denied")
       ELSE /\ Hold(p, "del_file", resources[r], resources[r])
            /\ UNCHANGED previousStatus
    /\ UNCHANGED <<dbVars, driver, syncVars>>

(* await storageService.deleteFile(resource.file.key); a throw is caught: 500 *)
DeleteFile(p) ==
    /\ At(p, "del_file")
    /\ \E fails \in BOOLEAN :
        /\ fails => S3DeleteMayFail
        /\ IF fails \/ (driver = "local" /\ LocalDeleteThrows(doc[p].fileKey))
           THEN /\ UNCHANGED files
                /\ Respond(p, 500, "Error deleting resource")
           ELSE /\ files' = files \ {doc[p].fileKey}
                /\ Goto(p, "del_db")
    /\ UNCHANGED <<resources, nextId, nextKey, modLogs, downloads, schoolStats, driver, syncVars>>

DeleteDbSkipped(p) ==
    /\ At(p, "del_db")
    /\ Goto(p, "del_stat")
    /\ UNCHANGED <<resources, nextId, files, nextKey, modLogs, downloads, schoolStats, driver, syncVars>>

(* await Resource.findByIdAndDelete(req.params.id) *)
DeleteDb(p) ==
    /\ At(p, "del_db")
    /\ resources' = [ r \in DOMAIN resources \ {op[p].rid} |-> resources[r] ]
    /\ Goto(p, "del_stat")
    /\ UNCHANGED <<nextId, files, nextKey, modLogs, downloads, schoolStats, driver, syncVars>>

(* await School.findByIdAndUpdate($inc totalResources -1), 200 *)
DeleteStat(p) ==
    /\ At(p, "del_stat")
    /\ schoolStats' = [schoolStats EXCEPT ![doc[p].school].totalResources = @ - 1]
    /\ Respond(p, 200, "Resource deleted successfully")
    /\ UNCHANGED <<resources, nextId, files, nextKey, modLogs, downloads, driver, syncVars>>

----------------------------------------------------------------------------
(* Resource controller: downloadResource                                   *)

DownloadDeniedOnlyRejected(d, u) ==
    d.status = "rejected" /\ Role(u) # "admin" /\ d.uploader # u

(* status !== 'approved' && role !== 'admin' && uploader !== req.user.id *)
DownloadDenied(d, u) ==
    d.status # "approved" /\ Role(u) # "admin" /\ d.uploader # u

DuplicateKeyNoIndex(u, r) == FALSE

(* The unique index { user: 1, resource: 1 } rejects a second record *)
DuplicateKey(u, r) == downloads[u, r] > 0

StartDownload(p) ==
    /\ CanStart(p)
    /\ \E u \in Users, r \in ResIds :
           /\ Begin(p, [handler |-> "download", user |-> u, rid |-> r], "dl_find")
           /\ UNCHANGED <<dbVars, driver, syncVars>>

(* await Resource.findById, the 404 and 403 exits *)
DownloadFind(p) ==
    /\ At(p, "dl_find")
    /\ LET r == op[p].rid IN
       IF ~Exists(r) THEN Respond(p, 404, "Resource not found")
       ELSE IF DownloadDenied(resources[r], op[p].user) THEN Respond(p, 403, "Access denied")
       ELSE /\ Hold(p, "dl_url", resources[r], resources[r])
            /\ UNCHANGED previousStatus
    /\ UNCHANGED <<dbVars, driver, syncVars>>

DownloadUrlAfterCount(p) ==
    /\ At(p, "dl_url")
    /\ \E fails \in BOOLEAN :
        /\ fails => UrlMayFail
        /\ IF fails
           THEN /\ resources' = [r \in DOMAIN resources |->
                                   IF r = op[p].rid
                                   THEN [resources[r] EXCEPT !.downloadCount = @ + 1]
                                   ELSE resources[r]]
                /\ Respond(p, 500, "Error generating download URL")
           ELSE /\ UNCHANGED resources
                /\ Hold(p, "dl_save", doc[p], [doc[p] EXCEPT !.downloadCount = @ + 1])
                /\ UNCHANGED previousStatus
    /\ UNCHANGED <<nextId, files, nextKey, modLogs, downloads, schoolStats, driver, syncVars>>

(* await storageService.getDownloadUrl; then incrementDownload runs up to *)
(* its save: this.downloadCount += 1                                      *)
DownloadUrl(p) ==
    /\ At(p, "dl_url")
    /\ \E fails \in BOOLEAN :
        /\ fails => UrlMayFail
        /\ IF fails THEN Respond(p, 500, "Error generating download URL")
           ELSE /\ Hold(p, "dl_save", doc[p], [doc[p] EXCEPT !.downloadCount = @ + 1])
                /\ UNCHANGED previousStatus
    /\ UNCHANGED <<dbVars, driver, syncVars>>

(* incrementDownload: await this.save() *)
DownloadSave(p) ==
    /\ At(p, "dl_save")
    /\ LET r == op[p].rid IN
       IF ~Exists(r)
       THEN /\ UNCHANGED resources
            /\ Respond(p, 500, "Error generating download URL")
       ELSE /\ resources' = [resources EXCEPT ![r] = ApplySave(@, doc[p], dirty[p])]
            /\ Goto(p, "dl_school")
    /\ UNCHANGED <<nextId, files, nextKey, modLogs, downloads, schoolStats, driver, syncVars>>

(* incrementDownload: await School.findByIdAndUpdate($inc totalDownloads 1) *)
DownloadSchool(p) ==
    /\ At(p, "dl_school")
    /\ schoolStats' = [schoolStats EXCEPT ![doc[p].school].totalDownloads = @ + 1]
    /\ Goto(p, "dl_record")
    /\ UNCHANGED <<resources, nextId, files, nextKey, modLogs, downloads, driver, syncVars>>

(* await Download.create(...); a duplicate-key error is caught: 500 *)
DownloadRecord(p) ==
    /\ At(p, "dl_record")
    /\ LET u == op[p].user
           r == op[p].rid IN
       IF DuplicateKey(u, r)
       THEN /\ UNCHANGED downloads
            /\ Respond(p, 500, "Error generating download URL")
       ELSE /\ downloads' = [downloads EXCEPT ![u, r] = @ + 1]
            /\ Respond(p, 200, "")
    /\ UNCHANGED <<resources, nextId, files, nextKey, modLogs, schoolStats, driver, syncVars>>

----------------------------------------------------------------------------
----------------------------------------------------------------------------
(* Resource and school controllers: the read routes                        *)

(* Whoever sends the request: a registered user or nobody *)
Bearers == Users \cup {NullUser}

(* GET /, /:id and /:id/related are registered before router.use(protect), *)
(* and the school routes before theirs: req.user is what an earlier        *)
(* middleware of the application left there, nothing or the token's bearer *)
PublicReqUser(u) == {NullUser, u}

(* req.user?.role *)
ReqRole(ru) == IF ru = NullUser THEN "none" ELSE Role(ru)

(* req.query.status *)
ListStatuses == {"none", "pending"}

HiddenOnlyRejected(d, ru) == d.status = "rejected" /\ ReqRole(ru) # "admin"

(* getResourceById: resource.status !== 'approved' && req.user?.role !== 'admin' *)
Hidden(d, ru) == d.status # "approved" /\ ReqRole(ru) # "admin"

(* getResources: query.status is 'approved' unless the requester is an    *)
(* admin, who filters by req.query.status or sees every status            *)
ListQuery(d, ru, q) ==
    IF ReqRole(ru) = "admin" THEN (q = "none" \/ d.status = q)
    ELSE d.status = "approved"

(* getRelatedResources: approved resources other than the one asked about *)
(* that share its subject, grade, a tag or its school                     *)
RelatedQuery(d, r, of) == r # of /\ d.status = "approved" /\ d.school = resources[of].school

(* getSchoolResources: { school: schoolId, status: 'approved' } *)
SchoolQuery(d, s) == d.school = s /\ d.status = "approved"

(* A read is served while no other request is in flight *)
CanRead(p) == p = 1 /\ \A q \in Procs : pc[q] = "idle"

(* res.json({ success: true, data: ... }) / res.status(404).json(...) *)
Reading(p, o, code, msg, ids) ==
    /\ op' = [op EXCEPT ![p] = o]
    /\ pc' = [pc EXCEPT ![p] = "done"]
    /\ response' = [response EXCEPT ![p] = [status |-> code, message |-> msg, returned |-> ids]]
    /\ UNCHANGED <<dbVars, driver, syncVars, started, overlaps, doc, dirty, previousStatus>>

GetResources(p) ==
    /\ CanRead(p)
    /\ \E u \in Bearers, q \in ListStatuses : \E ru \in PublicReqUser(u) :
           Reading(p, [handler |-> "list", user |-> u, reqUser |-> ru, status |-> q],
                   200, "", { r \in DOMAIN resources : ListQuery(resources[r], ru, q) })

GetResourceById(p) ==
    /\ CanRead(p)
    /\ \E u \in Bearers, r \in ResIds : \E ru \in PublicReqUser(u) :
           LET o == [handler |-> "get", user |-> u, reqUser |-> ru, rid |-> r] IN
           IF ~Exists(r) THEN Reading(p, o, 404, "Resource not found", {})
           ELSE IF Hidden(resources[r], ru) THEN Reading(p, o, 404, "Resource not found", {})
           ELSE Reading(p, o, 200, "", {r})

GetRelatedResources(p) ==
    /\ CanRead(p)
    /\ \E u \in Bearers, r \in ResIds :
           LET o == [handler |-> "related", user |-> u, rid |-> r] IN
           IF ~Exists(r) THEN Reading(p, o, 404, "Resource not found", {})
           ELSE Reading(p, o, 200, "", { x \in DOMAIN resources : RelatedQuery(resources[x], x, r) })

GetSchoolResources(p) ==
    /\ CanRead(p)
    /\ \E u \in Bearers, s \in Schools :
           Reading(p, [handler |-> "school", user |-> u, school |-> s],
                   200, "", { r \in DOMAIN resources : SchoolQuery(resources[r], s) })

(* Moderation controller: getPendingResources                              *)

(* req.query.page and req.query.limit, absent (page 1, 20 per page) or given *)
PageNumbers == {1, 2}
PageLimits == {1, 20}

RECURSIVE SortCreatedAtDescending(_)
SortCreatedAtDescending(ids) ==
    IF ids = {} THEN << >>
    ELSE LET first == CHOOSE r \in ids :
                          \A x \in ids : resources[r].createdAt >= resources[x].createdAt
         IN <<first>> \o SortCreatedAtDescending(ids \ {first})

(* .sort({ createdAt: 1 }) *)
RECURSIVE SortCreatedAtAscending(_)
SortCreatedAtAscending(ids) ==
    IF ids = {} THEN << >>
    ELSE LET first == CHOOSE r \in ids :
                          \A x \in ids : resources[r].createdAt <= resources[x].createdAt
         IN <<first>> \o SortCreatedAtAscending(ids \ {first})

(* .skip(skip).limit(limit) *)
SkipLimit(list, skip, limit) ==
    SubSeq(list, skip + 1, IF skip + limit < Len(list) THEN skip + limit ELSE Len(list))

(* Resource.find({ status: 'pending' }) *)
PendingIds == { r \in DOMAIN resources : resources[r].status = "pending" }

(* protect, requireAdmin, then the handler: find, sort, skip, limit *)
GetPendingResources(p) ==
    /\ CanRead(p)
    /\ \E u \in Bearers, page \in PageNumbers, limit \in PageLimits :
           LET o == [handler |-> "pending", user |-> u, page |-> page, limit |-> limit]
               found == SkipLimit(SortCreatedAtAscending(PendingIds), (page - 1) * limit, limit)
               answer(code, msg, list) ==
                   [status |-> code, message |-> msg, listed |-> list,
                    returned |-> { list[i] : i \in DOMAIN list }]
           IN
           /\ op' = [op EXCEPT ![p] = o]
           /\ pc' = [pc EXCEPT ![p] = "done"]
           /\ response' = [response EXCEPT ![p] =
                  IF u = NullUser THEN answer(401, "Not authorized, no token provided", << >>)
                  ELSE IF Role(u) # "admin"
                  THEN answer(403, "Access denied. Insufficient permissions.", << >>)
                  ELSE answer(200, "", found)]
           /\ UNCHANGED <<dbVars, driver, syncVars, started, overlaps, doc, dirty, previousStatus>>

Step(p) ==
    \/ StartUpload(p)   \/ UploadStore(p)  \/ UploadCreate(p) \/ UploadStat(p)
    \/ StartApprove(p)  \/ ApproveFind(p)  \/ ApproveSave(p)  \/ ApproveLog(p)
    \/ StartReject(p)   \/ RejectFind(p)   \/ RejectSave(p)   \/ RejectLog(p)
    \/ StartUpdate(p)   \/ UpdateFind(p)   \/ UpdateSave(p)
    \/ StartDelete(p)   \/ DeleteFind(p)   \/ DeleteFile(p)   \/ DeleteDb(p)
    \/ DeleteStat(p)
    \/ StartDownload(p) \/ DownloadFind(p) \/ DownloadUrl(p)  \/ DownloadSave(p)
    \/ DownloadSchool(p) \/ DownloadRecord(p)
    \/ Return(p)

Next == \E p \in Procs : Step(p)

Spec == Init /\ [][Next]_vars

(* One request at a time: a request is only served while no other is in flight *)
Alone(p) == \A q \in Procs \ {p} : pc[q] = "idle"

SeqStart(p) ==
    /\ Alone(p)
    /\ \/ StartUpload(p) \/ StartApprove(p) \/ StartReject(p)
       \/ StartUpdate(p) \/ StartDelete(p)  \/ StartDownload(p)

SeqStep(p) ==
    \/ SeqStart(p)
    \/ UploadStore(p)   \/ UploadCreate(p) \/ UploadStat(p)
    \/ ApproveFind(p)   \/ ApproveSave(p)  \/ ApproveLog(p)
    \/ RejectFind(p)    \/ RejectSave(p)   \/ RejectLog(p)
    \/ UpdateFind(p)    \/ UpdateSave(p)
    \/ DeleteFind(p)    \/ DeleteFile(p)   \/ DeleteDb(p)    \/ DeleteStat(p)
    \/ DownloadFind(p)  \/ DownloadUrl(p)  \/ DownloadSave(p)
    \/ DownloadSchool(p) \/ DownloadRecord(p)
    \/ Return(p)

SeqNext == \E p \in Procs : SeqStep(p)

SeqSpec == Init /\ [][SeqNext]_vars

(* The write routes one request at a time, with reads between requests *)
ReadStep(p) ==
    \/ SeqStep(p)
    \/ GetResources(p) \/ GetResourceById(p)
    \/ GetRelatedResources(p) \/ GetSchoolResources(p)
    \/ GetPendingResources(p)

ReadNext == \E p \in Procs : ReadStep(p)

ReadSpec == Init /\ [][ReadNext]_vars

----------------------------------------------------------------------------
(* Storage service called on its own                                       *)

(* Keys the driver is called with *)
DriverKeys == 1..(MaxResources + 1)

(* One call of the driver: slot 1 holds the call and how it ended *)
DriverCall(fn, k, outcome) ==
    /\ op' = [op EXCEPT ![1] = [handler |-> fn, key |-> k]]
    /\ response' = [response EXCEPT ![1] = [status |-> 0, message |-> outcome]]
    /\ UNCHANGED <<resources, nextId, nextKey, modLogs, downloads, schoolStats,
                   driver, syncVars, started, overlaps, pc, doc, dirty, previousStatus>>

(* The storage engine of multer writes the file: fs write / PutObject *)
DriverStore ==
    \E k \in DriverKeys \ files :
        /\ files' = files \cup {k}
        /\ DriverCall("store", k, "returned")

(* storageService.getDownloadUrl(key, originalName) *)
DriverGetDownloadUrl ==
    \E k \in DriverKeys, fails \in BOOLEAN :
        /\ fails => UrlMayFail
        /\ UNCHANGED files
        /\ DriverCall("getDownloadUrl", k, IF fails THEN "threw: getSignedUrl" ELSE "returned")

(* storageService.deleteFile(key) *)
DriverDeleteFile ==
    \E k \in DriverKeys, fails \in BOOLEAN :
        /\ fails => S3DeleteMayFail
        /\ IF fails
           THEN /\ UNCHANGED files
                /\ DriverCall("deleteFile", k, "threw: send")
           ELSE IF driver = "local" /\ LocalDeleteThrows(k)
           THEN /\ UNCHANGED files
                /\ DriverCall("deleteFile", k, "threw: unlink")
           ELSE /\ files' = files \ {k}
                /\ DriverCall("deleteFile", k, "returned")

DriverNext == DriverStore \/ DriverGetDownloadUrl \/ DriverDeleteFile

DriverSpec == Init /\ [][DriverNext]_vars

----------------------------------------------------------------------------
(* Downloads and edits of a resource that pile up: a request is received   *)
(* while others are still in flight, more than once                        *)

MaxBurst == 2

CanStartBurst(p) ==
    /\ ~Sending
    /\ pc[p] = "idle"
    /\ \A q \in Procs : q < p => pc[q] # "idle"
    /\ started < MaxRequests
    /\ Busy => overlaps < MaxBurst

(* GET /:id/download behind protect *)
StartDownloadBurst(p) ==
    /\ CanStartBurst(p)
    /\ \E u \in Users, r \in ResIds :
           /\ Begin(p, [handler |-> "download", user |-> u, rid |-> r], "dl_find")
           /\ UNCHANGED <<dbVars, driver, syncVars>>

(* PUT /:id behind protect, validators (all fields optional) *)
StartUpdateBurst(p) ==
    /\ CanStartBurst(p)
    /\ \E u \in Users, r \in ResIds, t \in UpdateTitles \cup {NoTitle} :
           /\ Begin(p, [handler |-> "update", user |-> u, rid |-> r, title |-> t], "ed_find")
           /\ UNCHANGED <<dbVars, driver, syncVars>>

BurstStep(p) ==
    \/ (Alone(p) /\ StartUpload(p))
    \/ UploadStore(p)    \/ UploadCreate(p) \/ UploadStat(p)
    \/ StartUpdateBurst(p) \/ UpdateFind(p) \/ UpdateSave(p)
    \/ StartDownloadBurst(p) \/ DownloadFind(p) \/ DownloadUrl(p) \/ DownloadSave(p)
    \/ DownloadSchool(p) \/ DownloadRecord(p)
    \/ Return(p)

BurstNext == \E p \in Procs : BurstStep(p)

BurstSpec == Init /\ [][BurstNext]_vars

----------------------------------------------------------------------------
(* ModerationLog model called on its own                                   *)

MaxLogs == 2

moderationActions == {"approved", "rejected"}

(* Values a caller may pass for previousStatus and newStatus: the enum's,  *)
(* none at all, and a string outside the enum                              *)
LogStatusInputs == resourceStatus \cup {"none", "archived"}

(* Schema validation: previousStatus, newStatus and action are required    *)
(* and restricted to their enums                                           *)
LogSchemaValid(entry) ==
    /\ entry.previousStatus \in resourceStatus
    /\ entry.newStatus \in resourceStatus
    /\ entry.action \in moderationActions

(* ModerationLog.create(entry): validation, the pre('save') hook, insert *)
ModerationLogCreate ==
    /\ Len(modLogs) < MaxLogs
    /\ \E prev \in LogStatusInputs, new \in LogStatusInputs, act \in moderationActions :
           LET entry == [ resource       |-> 1,
                          moderator      |-> "admin1",
                          action         |-> act,
                          notes          |-> NullStr,
                          previousStatus |-> prev,
                          newStatus      |-> new ]
               outcome == IF ~LogSchemaValid(entry) THEN "threw: ValidationError"
                          ELSE IF ~PreSaveOk(entry) THEN "threw: Invalid status transition"
                          ELSE "returned"
           IN
           /\ modLogs' = IF outcome = "returned" THEN Append(modLogs, entry) ELSE modLogs
           /\ op' = [op EXCEPT ![1] = [handler |-> "ModerationLog.create", entry |-> entry]]
           /\ response' = [response EXCEPT ![1] = [status |-> 0, message |-> outcome]]
           /\ UNCHANGED <<resources, nextId, files, nextKey, downloads, schoolStats,
                          driver, syncVars, started, overlaps, pc, doc, dirty, previousStatus>>

LogNext == ModerationLogCreate

LogSpec == Init /\ [][LogNext]_vars

----------------------------------------------------------------------------
(* Client: syncManager, the background sync queue                          *)

(* saveQueue: localforage.setItem('syncQueue', pendingOperations), its     *)
(* rejection caught. The operations are functions: the IndexedDB driver    *)
(* refuses to clone them and nothing is stored, the serializing drivers    *)
(* store one placeholder per operation; what is kept is the length stored  *)
saveQueue(queue) ==
    syncQueue' \in (IF queue = << >> THEN {0} ELSE {syncQueue, Len(queue)})

RequeueAtHead(queue, o) == <<o>> \o queue

RequeueDropped(queue, o) == queue

(* catch: syncManager.pendingOperations.push(operation) *)
Requeue(queue, o) == Append(queue, o)

(* processQueue from its while test, the queue being `queue`, up to the   *)
(* next await or to its return: shift and call the operation, or          *)
(* saveQueue and return                                                   *)
Drain(c, queue) ==
    IF queue = << >>
    THEN /\ pendingOperations' = queue
         /\ syncPc' = [syncPc EXCEPT ![c] = "idle"]
         /\ operation' = [operation EXCEPT ![c] = NoOperation]
         /\ saveQueue(queue)
    ELSE /\ pendingOperations' = Tail(queue)
         /\ operation' = [operation EXCEPT ![c] = Head(queue)]
         /\ syncPc' = [syncPc EXCEPT ![c] = "await"]
         /\ UNCHANGED syncQueue

(* addOperation(operation): push, saveQueue *)
addOperation ==
    /\ nextOperation <= MaxOperations
    /\ pendingOperations' = Append(pendingOperations, nextOperation)
    /\ nextOperation' = nextOperation + 1
    /\ saveQueue(pendingOperations')
    /\ UNCHANGED <<syncPc, operation, failures, completed, serverVars>>

(* window 'online' listener: syncManager.processQueue(), whether or not   *)
(* an earlier call is still awaiting an operation                         *)
processQueue(c) ==
    /\ syncPc[c] = "idle"
    /\ \A d \in Calls : d < c => syncPc[d] # "idle"
    /\ Drain(c, pendingOperations)
    /\ UNCHANGED <<nextOperation, failures, completed, serverVars>>

(* await operation() resolves: the loop goes on *)
OperationResolves(c) ==
    /\ syncPc[c] = "await"
    /\ completed' = [completed EXCEPT ![operation[c]] = @ + 1]
    /\ Drain(c, pendingOperations)
    /\ UNCHANGED <<nextOperation, failures, serverVars>>

(* await operation() throws: the catch re-adds the operation, the loop    *)
(* goes on. An operation throws MaxFailures times at most                 *)
OperationThrows(c) ==
    /\ syncPc[c] = "await"
    /\ failures[operation[c]] < MaxFailures
    /\ failures' = [failures EXCEPT ![operation[c]] = @ + 1]
    /\ Drain(c, Requeue(pendingOperations, operation[c]))
    /\ UNCHANGED <<nextOperation, completed, serverVars>>

SyncStep(c) == processQueue(c) \/ OperationResolves(c) \/ OperationThrows(c)

SyncNext == addOperation \/ \E c \in Calls : SyncStep(c)

SyncSpec == Init /\ [][SyncNext]_vars

(* Every operation that was called settles: its promise resolves or rejects *)
SyncFairness ==
    \A c \in Calls : WF_vars(OperationResolves(c) \/ OperationThrows(c))

SyncLiveSpec == SyncSpec /\ SyncFairness

----------------------------------------------------------------------------
(* School model: the bulk recompute of the statistics                      *)

(* { school: this._id, status: 'approved' } *)
ApprovedOfSchool(s) ==
    { r \in DOMAIN resources : resources[r].school = s /\ resources[r].status = "approved" }

(* $group: { total: { $sum: '$downloadCount' } } *)
RECURSIVE SumDownloadCount(_)
SumDownloadCount(ids) ==
    IF ids = {} THEN 0
    ELSE LET r == CHOOSE x \in ids : TRUE
         IN resources[r].downloadCount + SumDownloadCount(ids \ {r})

(* What schoolSchema.methods.updateStatistics assigns and saves *)
updateStatistics(s) ==
    [ totalResources |-> Cardinality(ApprovedOfSchool(s)),
      totalDownloads |-> SumDownloadCount(ApprovedOfSchool(s)) ]

----------------------------------------------------------------------------
(* Vocabulary of the properties                                            *)

Idle == \A p \in Procs : pc[p] = "idle"

(* Slot p takes a step *)
Moves(p) == pc'[p] # pc[p]

Answered(p, route, code) ==
    pc[p] = "done" /\ op[p].handler = route /\ response[p].status = code

LogsOf(r) == SelectSeq(modLogs, LAMBDA e : e.resource = r)

(* The entries replay a status history that starts at `from` and ends at `to` *)
RECURSIVE Replays(_, _, _)
Replays(entries, from, to) ==
    IF entries = << >> THEN from = to
    ELSE /\ Head(entries).previousStatus = from
         /\ Head(entries).newStatus # from
         /\ Replays(Tail(entries), Head(entries).newStatus, to)

(* Notes that are missing, empty or made of blanks only *)
Blank(n) == n.nul \/ \A i \in 1..Len(n.s) : n.s[i] = " "

Blanks(k) == [i \in 1..k |-> " "]

(* t is s without its leading and trailing blanks *)
IsStripped(t, s) ==
    /\ t = << >> \/ (t[1] # " " /\ t[Len(t)] # " ")
    /\ \E i, j \in 0..Len(s) : s = Blanks(i) \o t \o Blanks(j)

----------------------------------------------------------------------------
(* C1: every change of a resource's status has exactly one matching       *)
(* ModerationLogEntry: once no request is in progress, the log entries of *)
(* each resource replay its status history from pending to its current    *)
(* status, one entry per change.                                          *)
C1_StatusChangesLogged ==
    Idle => \A r \in DOMAIN resources :
                Replays(LogsOf(r), "pending", resources[r].status)

(* C2: approve or reject on an existing resource that is not pending      *)
(* answers 400 'not pending', appends no log entry and leaves the         *)
(* Resource collection as it was; receiving the request changes nothing.  *)
C2_NonPendingRefused ==
    [][\A p \in Procs :
        /\ (pc[p] = "idle" /\ Moves(p) /\ op'[p].handler \in {"approve", "reject"})
              => UNCHANGED <<resources, modLogs>>
        /\ (pc[p] \in {"ap_find", "rj_find"} /\ Moves(p)
              /\ Exists(op[p].rid) /\ resources[op[p].rid].status # "pending")
              => /\ pc'[p] = "done"
                 /\ response'[p] = [status |-> 400,
                                    message |-> "Resource is not pending moderation"]
                 /\ UNCHANGED <<resources, modLogs>>]_vars

C2_Witness ==
    \E p \in Procs :
        /\ Answered(p, "reject", 400)
        /\ response[p].message = "Resource is not pending moderation"
        /\ Exists(op[p].rid)
        /\ resources[op[p].rid].status = "approved"

(* C3: reject by an admin with notes that are missing, empty or blank is  *)
(* answered 400 at once, whatever the resource id: nothing is written.    *)
C3_BlankNotesRefused ==
    [][\A p \in Procs :
        (pc[p] = "idle" /\ Moves(p) /\ op'[p].handler = "reject"
            /\ Role(op'[p].user) = "admin" /\ Blank(op'[p].notes))
          => /\ pc'[p] = "done"
             /\ response'[p].status = 400
             /\ UNCHANGED dbVars]_vars

C3_Witness ==
    \E p \in Procs :
        /\ Answered(p, "reject", 400)
        /\ response[p].message = "Rejection notes are required"
        /\ op[p].notes = Str(<<" ">>)
        /\ Exists(op[p].rid)
        /\ resources[op[p].rid].status = "pending"

(* C4: of two overlapping approve requests for one resource, only one     *)
(* gets past the pending check: once one of them has saved the approval   *)
(* (it is logging or has answered 200), the other is not also on its way  *)
(* to save, log and answer 200.                                           *)
C4_OneApproveWins ==
    \A p, q \in Procs :
        (p # q /\ op[p].handler = "approve" /\ op[q].handler = "approve"
             /\ op[p].rid = op[q].rid)
          => ~(/\ pc[p] = "ap_log" \/ Answered(p, "approve", 200)
               /\ pc[q] \in {"ap_save", "ap_log"})

(* C5: moderation is atomic: in no state does a resource carry a          *)
(* moderation decision (status approved or rejected, moderatedBy) for     *)
(* which the ModerationLog holds no entry.                                *)
C5_ModerationAtomic ==
    \A r \in DOMAIN resources :
        resources[r].status \in {"approved", "rejected"}
          => \E i \in DOMAIN modLogs :
                /\ modLogs[i].resource = r
                /\ modLogs[i].newStatus = resources[r].status
                /\ modLogs[i].moderator = resources[r].moderatedBy

C7_CountedOncePerUser ==
    [][\A p \in Procs :
        LET r == op[p].rid
            first == downloads[op[p].user, r] = 0 IN
        /\ (pc[p] = "dl_save" /\ Moves(p) /\ Exists(r) /\ resources[r].status = "approved")
              => resources'[r].downloadCount =
                     resources[r].downloadCount + (IF first THEN 1 ELSE 0)
        /\ (pc[p] = "dl_school" /\ Moves(p) /\ Exists(r) /\ resources[r].status = "approved")
              => schoolStats'[resources[r].school].totalDownloads =
                     schoolStats[resources[r].school].totalDownloads
                         + (IF first THEN 1 ELSE 0)]_vars

(* C8: at most one DownloadRecord per (user, resource) pair. *)
C8_OneRecordPerPair ==
    \A u \in Users, r \in ResIds : downloads[u, r] <= 1

C8_Witness ==
    \E p, q \in Procs :
        /\ p # q
        /\ Answered(p, "download", 200)
        /\ pc[q] = "dl_record"
        /\ op[q].user = op[p].user
        /\ op[q].rid = op[p].rid

(* C9: a download whose DownloadRecord already exists is answered 200.    *)
C9_DuplicateIsSuccess ==
    [][\A p \in Procs :
        (pc[p] = "dl_record" /\ Moves(p) /\ downloads[op[p].user, op[p].rid] > 0)
          => response'[p].status = 200]_vars

(* C10: a download of an existing resource goes ahead exactly when the    *)
(* resource is approved, or the requester is its uploader or an admin;    *)
(* otherwise it is answered 403 and no counter or record changes.         *)
C10_DownloadAuthorized ==
    [][\A p \in Procs :
        /\ (pc[p] = "idle" /\ Moves(p) /\ op'[p].handler = "download")
              => UNCHANGED <<resources, schoolStats, downloads>>
        /\ (pc[p] = "dl_find" /\ Moves(p) /\ Exists(op[p].rid))
              => LET d == resources[op[p].rid]
                     u == op[p].user IN
                 IF d.status = "approved" \/ d.uploader = u \/ Role(u) = "admin"
                 THEN pc'[p] = "dl_url"
                 ELSE /\ pc'[p] = "done"
                      /\ response'[p].status = 403
                      /\ UNCHANGED <<resources, schoolStats, downloads>>]_vars

C10_Witness ==
    \E p \in Procs :
        /\ Answered(p, "download", 403)
        /\ Exists(op[p].rid)
        /\ resources[op[p].rid].status = "pending"
        /\ Role(op[p].user) = "student"

(* C11: a download whose URL generation fails is answered with an error   *)
(* and leaves downloadCount, totalDownloads and the Download records as   *)
(* they were; a download request writes to them only from the steps that  *)
(* follow a successful URL generation.                                    *)
C11_UrlFailureWritesNothing ==
    [][\A p \in Procs :
        /\ (pc[p] = "dl_url" /\ Moves(p) /\ pc'[p] = "done")
              => /\ response'[p].status = 500
                 /\ UNCHANGED <<resources, schoolStats, downloads>>
        /\ (Moves(p) /\ (op[p].handler = "download" \/ op'[p].handler = "download")
              /\ pc[p] \notin {"dl_save", "dl_school", "dl_record"})
              => UNCHANGED <<resources, schoolStats, downloads>>]_vars

(* A download answered 500 before incrementDownload touched the document *)
C11_Witness ==
    \E p \in Procs :
        /\ Answered(p, "download", 500)
        /\ dirty[p] = {}
        /\ Exists(op[p].rid)
        /\ resources[op[p].rid].status = "approved"
        /\ resources[op[p].rid].downloadCount = 0
        /\ downloads[op[p].user, op[p].rid] = 0

ReadRoutes == {"list", "get", "related", "school"}

(* C12: whatever a read route (get-by-id, list, related, school resources) *)
(* returns, a resource that is pending or rejected is returned only to its *)
(* uploader or to an admin, never to another user or to an anonymous one.  *)
C12_NonApprovedHidden ==
    \A p \in Procs :
        (pc[p] = "done" /\ op[p].handler \in ReadRoutes)
          => \A r \in response[p].returned :
                 /\ Exists(r)
                 /\ resources[r].status # "approved"
                       => /\ op[p].user # NullUser
                          /\ resources[r].uploader = op[p].user \/ Role(op[p].user) = "admin"

(* A student asks for a pending resource by id and gets 404 *)
C12_Witness ==
    \E p \in Procs :
        /\ Answered(p, "get", 404)
        /\ op[p].user = "student1"
        /\ op[p].reqUser = "student1"
        /\ Exists(op[p].rid)
        /\ resources[op[p].rid].status = "pending"

(* C13: get-by-id of a pending or rejected resource asked by its uploader *)
(* or by an admin, known to the handler as req.user, returns the resource. *)
C13_VisibleToUploaderAndAdmin ==
    \A p \in Procs :
        (/\ pc[p] = "done" /\ op[p].handler = "get"
         /\ Exists(op[p].rid)
         /\ resources[op[p].rid].status # "approved"
         /\ op[p].user # NullUser
         /\ op[p].reqUser = op[p].user
         /\ resources[op[p].rid].uploader = op[p].user \/ Role(op[p].user) = "admin")
          => /\ response[p].status = 200
             /\ op[p].rid \in response[p].returned

C15_StudentUploadRefused ==
    [][\A p \in Procs :
        (pc[p] = "idle" /\ Moves(p) /\ op'[p].handler = "upload"
            /\ Role(op'[p].user) \in {"student", "alumni"})
          => /\ pc'[p] = "done"
             /\ response'[p].status = 403
             /\ UNCHANGED dbVars]_vars

C15_Witness ==
    \E p \in Procs :
        /\ Answered(p, "upload", 403)
        /\ op[p].user = "alumni1"
        /\ op[p].hasFile
        /\ op[p].title # NoTitle

C17_StorageFailureProceeds ==
    \A p \in Procs : Answered(p, "delete", 500) => ~Exists(op[p].rid)

(* C18: deleteFile(k) called again after a deleteFile(k) that returned    *)
(* returns normally too and leaves the stored keys as the first call left *)
(* them, with the local driver and with S3 (a failure to reach S3 set     *)
(* aside).                                                                *)
C18_DeleteIdempotent ==
    [][(/\ op[1].handler = "deleteFile" /\ response[1].message = "returned"
        /\ op'[1].handler = "deleteFile" /\ op'[1].key = op[1].key
        /\ response'[1].message # "threw: send")
          => /\ response'[1].message = "returned"
             /\ files' = files]_vars

(* C19: an edit by an admin of a resource that is approved is carried out *)
(* and leaves the resource pending with moderatedBy, moderatedAt and      *)
(* moderationNotes cleared.                                               *)
C19_AdminEditDemotes ==
    [][\A p \in Procs :
        LET r == op[p].rid IN
        (/\ pc[p] \in {"ed_find", "ed_save"} /\ Moves(p)
         /\ Role(op[p].user) = "admin"
         /\ Exists(r) /\ resources[r].status = "approved")
          => IF pc[p] = "ed_find" THEN pc'[p] = "ed_save"
             ELSE /\ response'[p].status = 200
                  /\ resources'[r].status = "pending"
                  /\ resources'[r].moderatedBy = NullUser
                  /\ resources'[r].moderatedAt = NullDate
                  /\ resources'[r].moderationNotes = NullStr]_vars

(* An admin's edit is answered 200 on a resource approved with notes *)
C19_Witness ==
    \E p \in Procs :
        /\ Answered(p, "update", 200)
        /\ Role(op[p].user) = "admin"
        /\ Exists(op[p].rid)
        /\ resources[op[p].rid].status = "pending"
        /\ resources[op[p].rid].moderationNotes = NullStr
        /\ \E i \in DOMAIN modLogs :
               /\ modLogs[i].resource = op[p].rid
               /\ modLogs[i].newStatus = "approved"
               /\ modLogs[i].notes = Str(<<"x">>)

(* C20: reject of a resource that is approved, and approve of a resource  *)
(* that is rejected, are carried out: the handler goes on to save the new *)
(* status instead of refusing the request.                                *)
C20_RemoderationAllowed ==
    [][\A p \in Procs :
        LET r == op[p].rid IN
        /\ (pc[p] = "rj_find" /\ Moves(p) /\ Exists(r) /\ resources[r].status = "approved")
              => pc'[p] = "rj_save" /\ doc'[p].status = "rejected"
        /\ (pc[p] = "ap_find" /\ Moves(p) /\ Exists(r) /\ resources[r].status = "rejected")
              => pc'[p] = "ap_save" /\ doc'[p].status = "approved"]_vars

(* C21: while a resource exists its downloadCount never decreases from    *)
(* one state to the next, whatever downloads and edits overlap.           *)
C21_CountNeverDecreases ==
    [][\A r \in DOMAIN resources :
          r \in DOMAIN resources'
            => resources'[r].downloadCount >= resources[r].downloadCount]_vars

(* C22: in every reachable state the status of every resource is one of   *)
(* pending, approved, rejected.                                           *)
C22_StatusInEnum ==
    \A r \in DOMAIN resources : resources[r].status \in resourceStatus

(* Two resources were uploaded, one was approved and the other rejected *)
C22_Witness ==
    \E r, x \in DOMAIN resources :
        /\ resources[r].status = "approved"
        /\ resources[x].status = "rejected"
        /\ Idle

(* C23: the pending list is ordered oldest-first by creation time: what   *)
(* it returns are pending resources, and the entry at position i of page  *)
(* n is the pending resource that has exactly (n - 1) * limit + i - 1     *)
(* pending resources created before it, so no pending resource is listed  *)
(* ahead of one created earlier.                                          *)
C23_PendingOldestFirst ==
    \A p \in Procs :
        Answered(p, "pending", 200)
          => LET list == response[p].listed
                 skip == (op[p].page - 1) * op[p].limit
                 older(r) == { x \in PendingIds :
                                 resources[x].createdAt < resources[r].createdAt } IN
             /\ \A i \in DOMAIN list :
                    /\ list[i] \in PendingIds
                    /\ Cardinality(older(list[i])) = skip + i - 1
             /\ Len(list) <= op[p].limit
             /\ \A x \in PendingIds :
                    (Cardinality(older(x)) >= skip
                       /\ Cardinality(older(x)) < skip + op[p].limit)
                      => x \in response[p].returned

(* Two pending resources are listed on one page *)
C23_Witness ==
    \E p \in Procs :
        /\ Answered(p, "pending", 200)
        /\ Len(response[p].listed) = 2
        /\ response[p].listed[1] # response[p].listed[2]

LegalTransitions ==
    { <<"pending", "approved">>, <<"pending", "rejected">>,
      <<"approved", "rejected">>, <<"rejected", "approved">> }

(* C24: every persisted ModerationLogEntry has a (previousStatus,         *)
(* newStatus) pair in the legal set, and a save of an entry with any      *)
(* other pair is refused and stores nothing.                              *)
C24_OnlyLegalTransitionsLogged ==
    [][/\ \A i \in DOMAIN modLogs' :
             <<modLogs'[i].previousStatus, modLogs'[i].newStatus>> \in LegalTransitions
       /\ (op'[1].handler = "ModerationLog.create"
             /\ <<op'[1].entry.previousStatus, op'[1].entry.newStatus>> \notin LegalTransitions)
            => /\ response'[1].message # "returned"
               /\ modLogs' = modLogs]_vars

(* A save of approved -> pending was refused after a legal entry was stored *)
C24_Witness ==
    /\ op[1].handler = "ModerationLog.create"
    /\ op[1].entry.previousStatus = "approved"
    /\ op[1].entry.newStatus = "pending"
    /\ response[1].message = "threw: Invalid status transition"
    /\ Len(modLogs) = 1

(* The operations waiting in the sync queue *)
Waiting(queue) == { queue[i] : i \in DOMAIN queue }

(* Call c's operation resolves / throws in this step *)
Resolves(c) ==
    syncPc[c] = "await" /\ completed'[operation[c]] = completed[operation[c]] + 1

Throws(c) ==
    syncPc[c] = "await" /\ failures'[operation[c]] = failures[operation[c]] + 1

RecordedUsers(r) == { u \in Users : downloads[u, r] > 0 }

(* C27: no increment is lost when downloads of an approved resource by    *)
(* different first-time users overlap: once no download of the resource   *)
(* is still in progress, its downloadCount is not below the number of its *)
(* DownloadRecords (two overlapping first downloads leave it at two). A   *)
(* student among the recorded users tells that the resource was approved  *)
(* when it was downloaded.                                                *)
C27_NoLostIncrement ==
    \A r \in DOMAIN resources :
        (/\ resources[r].status = "approved"
         /\ \E u \in RecordedUsers(r) : Role(u) = "student"
         /\ \A p \in Procs :
               (op[p].handler = "download" /\ op[p].rid = r) => pc[p] = "done")
          => resources[r].downloadCount >= Cardinality(RecordedUsers(r))

(* C28: totalResources goes down by exactly one for each resource that is *)
(* deleted and is never negative: once no request is in progress, the     *)
(* school's totalResources is the number of its resources that were       *)
(* uploaded and not deleted.                                              *)
C28_DecrementedOncePerDelete ==
    Idle => \A s \in Schools :
                /\ schoolStats[s].totalResources >= 0
                /\ schoolStats[s].totalResources =
                       Cardinality({ r \in DOMAIN resources : resources[r].school = s })

(* C29: whenever no approve or reject request is in progress, a resource  *)
(* whose status is approved or rejected has log entries, and the newStatus *)
(* of the most recent one is the status of the resource.                  *)
C29_LatestLogMatchesStatus ==
    (\A p \in Procs : op[p].handler \in {"approve", "reject"} => pc[p] = "done")
      => \A r \in DOMAIN resources :
             resources[r].status \in {"approved", "rejected"}
               => /\ LogsOf(r) # << >>
                  /\ LogsOf(r)[Len(LogsOf(r))].newStatus = resources[r].status

====
